---- MODULE Spec2Model ----
(***************************************************************************)
(* Commerce transaction pipeline of mtc-platform: the cart engine          *)
(* (CartService), digital fulfillment (DigitalDownloadService), the        *)
(* payment engine (PaymentService), the order pipeline (OrderService and   *)
(* the order routes) and the product catalog (ProductService).             *)
(*                                                                         *)
(* Every service keeps its state in database tables; a table is modelled   *)
(* as a function from the row id to the row.  Row ids are built from the   *)
(* clock and a 9 character random suffix; the model draws them from a      *)
(* counter, i.e. the random suffix is taken to be fresh.  Money is in      *)
(* minor units (cents), the tax rate in percent.  SQL NULL / undefined is  *)
(* the value Null.  created_at / updated_at columns are left out: no       *)
(* operation reads them back.                                              *)
(***************************************************************************)
EXTENDS Integers, FiniteSets, Sequences, TLC

VARIABLES
    now,            \* Date.now(), in milliseconds
    ticks,          \* number of clock advances so far
    \* ---- cart engine
    carts,          \* table carts: cart id -> row
    cartItems,      \* table cart_items: item id -> row
    cartSeq,        \* how many cart ids and item ids have been handed out
    cartLast,       \* how the last CartService call ended: "ok" or the error thrown
    aiCalls,        \* addItem calls running statement by statement: call id -> locals
    \* ---- digital fulfillment
    digitalDownloads, \* table digital_downloads: ids of the rows present
    r2Objects,      \* object store: ids of the downloads whose r2Key holds bytes
    downloadLinks,  \* table download_links: link id -> row
    dlSeq,          \* how many download ids and link ids have been handed out
    dlCalls,        \* getDownloadFile calls: call id -> position and locals
    routeLast,      \* the last response of GET /downloads/:token
    \* ---- payment engine
    gateways,       \* PaymentService.gateways: the registered gateway types
    payments,       \* table payments: payment id -> row
    refunds,        \* table refunds: refund id -> row
    ppCalls,        \* processPayment calls: call id -> position and locals
    refundLog,      \* what gateway.refund was handed, one entry per invocation
    rfCalls,        \* processRefund calls: call id -> position and locals
    \* ---- order pipeline
    orders,         \* table orders: order id -> row
    orderItems,     \* table order_items: item id -> row
    uoCalls,        \* updateOrder calls in flight: call id -> locals
    orderOps,       \* how many order updates have been started
    orderLast,      \* how the last order operation ended: "ok" or the error
    \* ---- product catalog
    products,       \* table products: product id -> row
    prodSeq,        \* how many product ids have been handed out
    prodLast,       \* how the last ProductService call ended: "ok" or the error
    dsCalls         \* decreaseStock calls issued concurrently: call id -> locals

clockVars == <<now, ticks>>
cartVars  == <<carts, cartItems, cartSeq, cartLast, aiCalls>>
dlVars    == <<digitalDownloads, r2Objects, downloadLinks, dlSeq, dlCalls, routeLast>>
payVars   == <<gateways, payments, refunds, ppCalls, refundLog, rfCalls>>
orderVars == <<orders, orderItems, uoCalls, orderOps, orderLast>>
prodVars  == <<products, prodSeq, prodLast, dsCalls>>
vars == <<now, ticks, carts, cartItems, cartSeq, cartLast, aiCalls,
          digitalDownloads, r2Objects, downloadLinks, dlSeq, dlCalls, routeLast,
          gateways, payments, refunds, ppCalls, refundLog, rfCalls,
          orders, orderItems, uoCalls, orderOps, orderLast,
          products, prodSeq, prodLast, dsCalls>>

Null == -1
\* a NULL in a text column
NullText == "NULL"

RECURSIVE SumOver(_, _)
SumOver(f, S) ==
    IF S = {} THEN 0
    ELSE LET x == CHOOSE y \in S : TRUE
         IN  f[x] + SumOver(f, S \ {x})

(***************************************************************************)
(* Clock                                                                   *)
(***************************************************************************)
MaxTicks == 2

\* Math.floor(Date.now() / 1000)
Seconds(ms) == ms \div 1000

Tick(step) ==
    /\ ticks < MaxTicks
    /\ now' = now + step
    /\ ticks' = ticks + 1

(***************************************************************************)
(* Cart engine                                                             *)
(***************************************************************************)
MaxCarts == 2
MaxCartItems == 2

\* table stores: store id -> tax_rate (percent).  "S0" names no store.
StoreRows == [s \in {"S1"} |-> 10]
CartStoreIds == {"S0", "S1"}
\* cart id 0 and item id 0 are ids no row ever had
ItemIdInputs == 0 .. MaxCartItems
Quantities == {0, 1, 2}
\* the quantities handed to addItem; 2 is reached through updateItem only
AddQuantities == {0, 1}
Prices == {500, 1000}
ShippingCosts == {0, 500}
Discounts == {0, 300}
\* userId and sessionId of CreateCartInput; "" stands for a missing or empty one
OwnerInputs == {"", "u1"}
\* 30 * 24 * 60 * 60
CartLifetime == 2592000
\* clock advances between cart calls, in ms: fifteen days, and a second more
CartClockSteps == {1296000000, 1296001000}

\* a cart id is known to a caller only once createCart has returned it
KnownCartIds == 0 .. cartSeq.carts

\* no CartService method touches another component's rows
CartFrame == UNCHANGED <<clockVars, dlVars, payVars, orderVars, prodVars, aiCalls>>

ItemsOf(its, cartId) == {i \in DOMAIN its : its[i].cartId = cartId}

\* recalculateCart, lines 278-282
Subtotal(its, cartId) ==
    SumOver([i \in DOMAIN its |-> its[i].price * its[i].quantity], ItemsOf(its, cartId))

\* storeResult?.tax_rate || 0
TaxRateOf(storeId) ==
    IF storeId \in DOMAIN StoreRows THEN StoreRows[storeId] ELSE 0

Tax(subtotal, taxRate) == (subtotal * taxRate) \div 100

\* RecalculateCart with the coupon discount left out of the total
RecalculateCartNoDiscount(cs, its, cartId) ==
    LET subtotal == Subtotal(its, cartId)
        tax      == Tax(subtotal, TaxRateOf(cs[cartId].storeId))
        total    == subtotal + tax + cs[cartId].totalShipping
    IN  [cs EXCEPT ![cartId].totalPrice = total, ![cartId].totalTax = tax]

\* recalculateCart on a cart that exists: the UPDATE of total_price, total_tax
RecalculateCart(cs, its, cartId) ==
    LET subtotal == Subtotal(its, cartId)
        tax      == Tax(subtotal, TaxRateOf(cs[cartId].storeId))
        total    == subtotal + tax + cs[cartId].totalShipping - cs[cartId].couponDiscount
    IN  [cs EXCEPT ![cartId].totalPrice = total, ![cartId].totalTax = tax]

\* recalculateCart as the tail of a handler: throws when the cart is missing
Recalculated(cs, its, cartId) ==
    IF cartId \in DOMAIN cs
    THEN /\ carts' = RecalculateCart(cs, its, cartId)
         /\ cartLast' = "ok"
    ELSE /\ carts' = cs
         /\ cartLast' = "CartNotFound"

\* `cart.userId || null` as bound into the INSERT
TextOrNull(v) == IF v = "" THEN NullText ELSE v

\* createCart: the row as inserted
NewCartRow(storeId, userId, sessionId, nowMs) ==
    [storeId |-> storeId, userId |-> TextOrNull(userId),
     sessionId |-> TextOrNull(sessionId),
     totalPrice |-> 0, totalTax |-> 0, totalShipping |-> 0,
     couponDiscount |-> 0, expiresAt |-> Seconds(nowMs) + CartLifetime]

\* createCart
CreateCart(storeId, userId, sessionId) ==
    /\ CartFrame
    /\ cartSeq.carts < MaxCarts
    /\ LET id == cartSeq.carts + 1
       IN  /\ carts' = (id :> NewCartRow(storeId, userId, sessionId, now)) @@ carts
           /\ cartLast' = "ok"
    /\ cartSeq' = [cartSeq EXCEPT !.carts = @ + 1]
    /\ UNCHANGED cartItems

\* addItem: INSERT INTO cart_items, then recalculateCart(cartId)
AddItem(cartId, productId, quantity, price) ==
    /\ CartFrame
    /\ cartSeq.items < MaxCartItems
    /\ LET id == cartSeq.items + 1
       IN  cartItems' = (id :> [cartId |-> cartId, productId |-> productId,
                                quantity |-> quantity, price |-> price])
                            @@ cartItems
    /\ cartSeq' = [cartSeq EXCEPT !.items = @ + 1]
    /\ Recalculated(carts, cartItems', cartId)

\* a DELETE that matches no row
KeepItem(its, itemId) == its

\* the DELETE of removeItem
DeleteItem(its, itemId) == [i \in DOMAIN its \ {itemId} |-> its[i]]

\* removeItem: SELECT, DELETE FROM cart_items, then recalculateCart(item.cart_id)
RemoveItem(itemId) ==
    /\ CartFrame
    /\ IF itemId \notin DOMAIN cartItems
       THEN /\ cartLast' = "ItemNotFound"
            /\ UNCHANGED <<carts, cartItems, cartSeq>>
       ELSE /\ cartItems' = DeleteItem(cartItems, itemId)
            /\ Recalculated(carts, cartItems', cartItems[itemId].cartId)
            /\ UNCHANGED cartSeq

\* updateItem: quantity <= 0 removes the item, otherwise UPDATE quantity and
\* recalculateCart(item.cart_id)
UpdateItem(itemId, quantity) ==
    /\ CartFrame
    /\ IF itemId \notin DOMAIN cartItems
       THEN /\ cartLast' = "ItemNotFound"
            /\ UNCHANGED <<carts, cartItems, cartSeq>>
       ELSE IF quantity <= 0
            THEN RemoveItem(itemId)
            ELSE /\ cartItems' = [cartItems EXCEPT ![itemId].quantity = quantity]
                 /\ Recalculated(carts, cartItems', cartItems[itemId].cartId)
                 /\ UNCHANGED cartSeq

\* ResetTotals with total_shipping left as it was
ResetTotalsKeepShipping(cs, cartId) ==
    IF cartId \in DOMAIN cs
    THEN [cs EXCEPT ![cartId].totalPrice = 0, ![cartId].totalTax = 0,
                    ![cartId].couponDiscount = 0]
    ELSE cs

\* the UPDATE of clearCart: it touches the row WHERE id = cartId, if there is one
ResetTotals(cs, cartId) ==
    IF cartId \in DOMAIN cs
    THEN [cs EXCEPT ![cartId].totalPrice = 0, ![cartId].totalTax = 0,
                    ![cartId].totalShipping = 0, ![cartId].couponDiscount = 0]
    ELSE cs

\* clearCart: DELETE FROM cart_items WHERE cart_id, then the reset; it never throws
ClearCart(cartId) ==
    /\ CartFrame
    /\ cartItems' = [i \in DOMAIN cartItems \ ItemsOf(cartItems, cartId) |-> cartItems[i]]
    /\ carts' = ResetTotals(carts, cartId)
    /\ cartLast' = "ok"
    /\ UNCHANGED cartSeq

\* an UPDATE carts SET <field> = v WHERE id = cartId
SetCartField(cs, cartId, field, v) ==
    IF cartId \in DOMAIN cs THEN [cs EXCEPT ![cartId][field] = v] ELSE cs

\* applyCoupon: UPDATE coupon_discount, then recalculateCart
ApplyCoupon(cartId, discount) ==
    /\ CartFrame
    /\ Recalculated(SetCartField(carts, cartId, "couponDiscount", discount), cartItems,
                    cartId)
    /\ UNCHANGED <<cartItems, cartSeq>>

\* removeCoupon: UPDATE coupon_discount = 0, then recalculateCart
RemoveCoupon(cartId) ==
    /\ CartFrame
    /\ Recalculated(SetCartField(carts, cartId, "couponDiscount", 0), cartItems,
                    cartId)
    /\ UNCHANGED <<cartItems, cartSeq>>

\* setShipping: UPDATE total_shipping, then recalculateCart
SetShipping(cartId, shippingCost) ==
    /\ CartFrame
    /\ Recalculated(SetCartField(carts, cartId, "totalShipping", shippingCost), cartItems,
                    cartId)
    /\ UNCHANGED <<cartItems, cartSeq>>

\* deleteExpiredCarts: DELETE FROM carts WHERE expires_at < now, and nothing else
DeleteExpiredCarts ==
    /\ CartFrame
    /\ carts' = [c \in {d \in DOMAIN carts : ~(carts[d].expiresAt < Seconds(now))}
                   |-> carts[c]]
    /\ cartLast' = "ok"
    /\ UNCHANGED <<cartItems, cartSeq>>

\* the clock advances between two cart calls
CartTick(step) == Tick(step) /\ UNCHANGED <<cartVars, dlVars, payVars, orderVars, prodVars>>

\* ---- addItem, one action per database statement ----
MaxAiCalls == 2

\* a step of a running call touches nothing outside the cart tables
CartStepFrame == UNCHANGED <<clockVars, dlVars, payVars, orderVars, prodVars>>

AiCallIds == DOMAIN aiCalls

\* addItem, lines 152-167: the INSERT; the call goes on to recalculateCart(cartId)
AiInsert(cartId, productId, quantity, price) ==
    /\ CartStepFrame
    /\ Cardinality(AiCallIds) < MaxAiCalls
    /\ cartSeq.items < MaxCartItems
    /\ LET id == cartSeq.items + 1
       IN  cartItems' = (id :> [cartId |-> cartId, productId |-> productId,
                                quantity |-> quantity, price |-> price])
                            @@ cartItems
    /\ cartSeq' = [cartSeq EXCEPT !.items = @ + 1]
    /\ aiCalls' = (Cardinality(AiCallIds) + 1 :>
                      [cartId |-> cartId, pc |-> "getCart", cart |-> Null,
                       seen |-> {}, subtotal |-> 0, taxRate |-> 0])
                  @@ aiCalls
    /\ UNCHANGED <<carts, cartLast>>

\* recalculateCart, lines 273-274: getCart, and the throw when there is none
AiGetCart(c) ==
    /\ CartStepFrame
    /\ aiCalls[c].pc = "getCart"
    /\ IF aiCalls[c].cartId \in DOMAIN carts
       THEN /\ aiCalls' = [aiCalls EXCEPT ![c].pc = "getItems",
                                          ![c].cart = carts[aiCalls[c].cartId]]
            /\ UNCHANGED cartLast
       ELSE /\ aiCalls' = [aiCalls EXCEPT ![c].pc = "failed"]
            /\ cartLast' = "CartNotFound"
    /\ UNCHANGED <<carts, cartItems, cartSeq>>

\* recalculateCart, lines 276-282: getItems and the subtotal of what it returned
AiGetItems(c) ==
    /\ CartStepFrame
    /\ aiCalls[c].pc = "getItems"
    /\ aiCalls' = [aiCalls EXCEPT ![c].pc = "getTaxRate",
                                  ![c].seen = ItemsOf(cartItems, aiCalls[c].cartId),
                                  ![c].subtotal = Subtotal(cartItems, aiCalls[c].cartId)]
    /\ UNCHANGED <<carts, cartItems, cartSeq, cartLast>>

\* recalculateCart, lines 285-290: SELECT tax_rate FROM stores
AiGetTaxRate(c) ==
    /\ CartStepFrame
    /\ aiCalls[c].pc = "getTaxRate"
    /\ aiCalls' = [aiCalls EXCEPT ![c].pc = "write",
                                  ![c].taxRate = TaxRateOf(aiCalls[c].cart.storeId)]
    /\ UNCHANGED <<carts, cartItems, cartSeq, cartLast>>

\* WriteTotals with the tax left out of the total
WriteTotalsNoTax(cs, call) ==
    IF call.cartId \in DOMAIN cs
    THEN [cs EXCEPT ![call.cartId].totalPrice =
                        call.subtotal + call.cart.totalShipping - call.cart.couponDiscount,
                    ![call.cartId].totalTax = Tax(call.subtotal, call.taxRate)]
    ELSE cs

\* recalculateCart, lines 291-301: tax and total from the call's locals, and the
\* UPDATE carts SET total_price, total_tax WHERE id = ?
WriteTotals(cs, call) ==
    IF call.cartId \in DOMAIN cs
    THEN LET tax == Tax(call.subtotal, call.taxRate)
         IN  [cs EXCEPT ![call.cartId].totalPrice =
                            call.subtotal + tax + call.cart.totalShipping
                              - call.cart.couponDiscount,
                        ![call.cartId].totalTax = tax]
    ELSE cs

AiWrite(c) ==
    /\ CartStepFrame
    /\ aiCalls[c].pc = "write"
    /\ carts' = WriteTotals(carts, aiCalls[c])
    /\ aiCalls' = [aiCalls EXCEPT ![c].pc = "done"]
    /\ cartLast' = "ok"
    /\ UNCHANGED <<cartItems, cartSeq>>

\* addItem calls running concurrently on the carts of one store
CartRaceNext ==
    \/ CreateCart("S1", "u1", "")
    \/ \E c \in KnownCartIds, p \in Prices : AiInsert(c, 1, 1, p)
    \/ \E c \in AiCallIds : AiGetCart(c)
    \/ \E c \in AiCallIds : AiGetItems(c)
    \/ \E c \in AiCallIds : AiGetTaxRate(c)
    \/ \E c \in AiCallIds : AiWrite(c)

CartNext ==
    \/ \E s \in CartStoreIds : CreateCart(s, "u1", "")
    \/ \E c \in KnownCartIds, q \in AddQuantities, p \in Prices : AddItem(c, 1, q, p)
    \/ \E i \in ItemIdInputs, q \in Quantities : UpdateItem(i, q)
    \/ \E i \in ItemIdInputs : RemoveItem(i)
    \/ \E c \in KnownCartIds : ClearCart(c)
    \/ \E c \in KnownCartIds, d \in Discounts : ApplyCoupon(c, d)
    \/ \E c \in KnownCartIds : RemoveCoupon(c)
    \/ \E c \in KnownCartIds, sh \in ShippingCosts : SetShipping(c, sh)

(***************************************************************************)
(* Digital fulfillment                                                     *)
(*                                                                         *)
(* A link's token stands for the link: the token of link k is k, and       *)
(* token 0 is a token no link has.  A digital download's r2Key stands for  *)
(* the download: r2Objects holds the ids whose key holds bytes.            *)
(* getDownloadFile suspends at each await, so it is one action per         *)
(* database or object-store round trip.                                    *)
(***************************************************************************)
MaxDownloads == 1
MaxLinks == 1
MaxDlCalls == 2

SecondsPerDay == 86400
DownloadIdInputs == 0 .. MaxDownloads
TokenInputs == 0 .. MaxLinks
MaxDownloadsInputs == {Null, 0, 1}
ExpirationDaysInputs == {Null, 0, 1}
DlClockSteps == {1000, 86400000}

\* no DigitalDownloadService method touches the clock or another component's rows
DownloadFrame == UNCHANGED <<clockVars, cartVars, payVars, orderVars, prodVars, routeLast>>

\* the clock advances between any two steps
DlTick(step) == Tick(step) /\ UNCHANGED <<cartVars, dlVars, payVars, orderVars, prodVars>>

\* JavaScript truthiness of an optional number: undefined, null and 0 are falsy
Truthy(v) == v # Null /\ v # 0

\* a binding that keeps a falsy value as it is
KeepValue(v) == v

\* `v || null` as bound into an INSERT
OrNull(v) == IF Truthy(v) THEN v ELSE Null

\* createDigitalDownload
CreateDigitalDownload ==
    /\ DownloadFrame
    /\ dlSeq.downloads < MaxDownloads
    /\ digitalDownloads' = digitalDownloads \cup {dlSeq.downloads + 1}
    /\ dlSeq' = [dlSeq EXCEPT !.downloads = @ + 1]
    /\ UNCHANGED <<r2Objects, downloadLinks, dlCalls>>

\* uploadFile: throws when the download row is missing, else r2.put
UploadFile(downloadId) ==
    /\ DownloadFrame
    /\ downloadId \in digitalDownloads
    /\ r2Objects' = r2Objects \cup {downloadId}
    /\ UNCHANGED <<digitalDownloads, downloadLinks, dlSeq, dlCalls>>

\* deleteDigitalDownload: throws when the row is missing, else r2.delete and DELETE
DeleteDigitalDownload(downloadId) ==
    /\ DownloadFrame
    /\ downloadId \in digitalDownloads
    /\ r2Objects' = r2Objects \ {downloadId}
    /\ digitalDownloads' = digitalDownloads \ {downloadId}
    /\ UNCHANGED <<downloadLinks, dlSeq, dlCalls>>

\* createDownloadLink, line 149
ExpiresAt(nowMs, expirationDays) ==
    IF Truthy(expirationDays) THEN Seconds(nowMs) + expirationDays * SecondsPerDay ELSE Null

\* createDownloadLink: the row as inserted
NewLinkRow(digitalDownloadId, maxDownloads, expirationDays) ==
    [digitalDownloadId |-> digitalDownloadId,
     downloadCount |-> 0,
     maxDownloads |-> OrNull(maxDownloads),
     expiresAt |-> OrNull(ExpiresAt(now, expirationDays))]

CreateDownloadLink(digitalDownloadId, maxDownloads, expirationDays) ==
    /\ DownloadFrame
    /\ dlSeq.links < MaxLinks
    /\ downloadLinks' = (dlSeq.links + 1 :>
                            NewLinkRow(digitalDownloadId, maxDownloads, expirationDays))
                        @@ downloadLinks
    /\ dlSeq' = [dlSeq EXCEPT !.links = @ + 1]
    /\ UNCHANGED <<digitalDownloads, r2Objects, dlCalls>>

\* a lookup that checks the download limit only
LinkByTokenNoExpiry(links, token, nowMs) ==
    IF token \notin DOMAIN links THEN "null"
    ELSE IF Truthy(links[token].maxDownloads)
            /\ links[token].downloadCount >= links[token].maxDownloads
         THEN "LimitReached"
    ELSE "link"

\* getDownloadLinkByToken: what it returns or throws for a token
LinkByToken(links, token, nowMs) ==
    IF token \notin DOMAIN links THEN "null"
    ELSE IF Truthy(links[token].expiresAt) /\ links[token].expiresAt < Seconds(nowMs)
         THEN "Expired"
    ELSE IF Truthy(links[token].maxDownloads)
            /\ links[token].downloadCount >= links[token].maxDownloads
         THEN "LimitReached"
    ELSE "link"

\* recordDownload: UPDATE download_links SET download_count = download_count + 1
RecordDownload(links, linkId) ==
    IF linkId \in DOMAIN links
    THEN [links EXCEPT ![linkId].downloadCount = @ + 1]
    ELSE links

DlCallIds == DOMAIN dlCalls

\* getDownloadFile, lines 239-240: resolve the link
DlResolve(token) ==
    /\ DownloadFrame
    /\ Cardinality(DlCallIds) < MaxDlCalls
    /\ LET c == Cardinality(DlCallIds) + 1
           r == LinkByToken(downloadLinks, token, now)
       IN  dlCalls' = (c :> [token |-> token,
                             pc |-> IF r = "link" THEN "haveLink" ELSE "done",
                             downloadId |-> IF r = "link"
                                            THEN downloadLinks[token].digitalDownloadId
                                            ELSE Null,
                             result |-> IF r = "link" THEN "running"
                                        ELSE IF r = "null" THEN "InvalidLink" ELSE r])
                      @@ dlCalls
    /\ UNCHANGED <<digitalDownloads, r2Objects, downloadLinks, dlSeq>>

\* getDownloadFile, lines 242-243: load the digital download
DlGetDownload(c) ==
    /\ DownloadFrame
    /\ c \in DlCallIds /\ dlCalls[c].pc = "haveLink"
    /\ dlCalls' = IF dlCalls[c].downloadId \in digitalDownloads
                  THEN [dlCalls EXCEPT ![c].pc = "haveDownload"]
                  ELSE [dlCalls EXCEPT ![c].pc = "done", ![c].result = "DownloadNotFound"]
    /\ UNCHANGED <<digitalDownloads, r2Objects, downloadLinks, dlSeq>>

\* getDownloadFile, line 246: recordDownload(link.id)
DlRecord(c) ==
    /\ DownloadFrame
    /\ c \in DlCallIds /\ dlCalls[c].pc = "haveDownload"
    /\ downloadLinks' = RecordDownload(downloadLinks, dlCalls[c].token)
    /\ dlCalls' = [dlCalls EXCEPT ![c].pc = "recorded"]
    /\ UNCHANGED <<digitalDownloads, r2Objects, dlSeq>>

\* getDownloadFile, lines 249-256: fetch the object and return it
DlFetch(c) ==
    /\ DownloadFrame
    /\ c \in DlCallIds /\ dlCalls[c].pc = "recorded"
    /\ dlCalls' = [dlCalls EXCEPT ![c].pc = "done",
                                  ![c].result = IF dlCalls[c].downloadId \in r2Objects
                                                THEN "file" ELSE "FileNotInStorage"]
    /\ UNCHANGED <<digitalDownloads, r2Objects, downloadLinks, dlSeq>>

\* ---- GET /downloads/:token ----
MaxRouteDownloads == 2

\* the route touches the table download_links only
DownloadRouteFrame == UNCHANGED <<clockVars, cartVars, payVars, orderVars, prodVars>>

\* the route's SELECT ... WHERE token = ? AND (expires_at IS NULL OR expires_at > ?)
RouteSelects(links, token, nowMs) ==
    /\ token \in DOMAIN links
    /\ (links[token].expiresAt = Null \/ links[token].expiresAt > Seconds(nowMs))

\* the route's response for a token: 404, 403, or success
RouteDecision(links, token, nowMs) ==
    IF ~RouteSelects(links, token, nowMs) THEN "NotFoundOrExpired"
    ELSE IF Truthy(links[token].maxDownloads)
            /\ links[token].downloadCount >= links[token].maxDownloads
         THEN "LimitExceeded"
    ELSE "ok"

\* GET /downloads/:token: the SELECT, the limit check, the UPDATE of download_count
RouteDownload(token) ==
    /\ DownloadRouteFrame
    /\ token \in DOMAIN downloadLinks =>
           downloadLinks[token].downloadCount < MaxRouteDownloads
    /\ routeLast' = RouteDecision(downloadLinks, token, now)
    /\ downloadLinks' = IF routeLast' = "ok"
                        THEN RecordDownload(downloadLinks, token)
                        ELSE downloadLinks
    /\ UNCHANGED <<digitalDownloads, r2Objects, dlSeq, dlCalls>>

\* links of every kind, ageing, requested over HTTP
DownloadRouteNext ==
    \/ \E m \in MaxDownloadsInputs, e \in ExpirationDaysInputs : CreateDownloadLink(1, m, e)
    \/ \E t \in TokenInputs : RouteDownload(t)
    \/ \E step \in DlClockSteps : DlTick(step)

DownloadNext ==
    \/ CreateDigitalDownload
    \/ \E d \in DownloadIdInputs : UploadFile(d)
    \/ \E d \in DownloadIdInputs : DeleteDigitalDownload(d)
    \/ \E d \in DownloadIdInputs, m \in MaxDownloadsInputs, e \in ExpirationDaysInputs :
          CreateDownloadLink(d, m, e)
    \/ \E t \in TokenInputs : DlResolve(t)
    \/ \E c \in 1 .. MaxDlCalls : DlGetDownload(c)
    \/ \E c \in 1 .. MaxDlCalls : DlRecord(c)
    \/ \E c \in 1 .. MaxDlCalls : DlFetch(c)
    \/ \E step \in DlClockSteps : DlTick(step)

(***************************************************************************)
(* Payment engine                                                          *)
(*                                                                         *)
(* processPayment suspends at the INSERT of createPayment, at the gateway  *)
(* call and at the UPDATE that records the outcome: one action for each.   *)
(* The gateway lookup and the start of gateway.process run without         *)
(* suspension once the INSERT has returned.  A gateway handler is outside  *)
(* the program: it returns any transaction id or throws any value.         *)
(***************************************************************************)
MaxPpCalls == 2
MaxRefunds == 1
MaxRfCalls == 2

GatewayTypes == {"stripe", "paypal"}
PayOrderIds == {1, 2}
PayAmounts == {100}
RefundAmounts == {50, 150}
TxnIds == {"tx1", "tx2"}
RefundOrderIds == {1}
RefundTxnIds == {"rtx1"}
\* the refund flow is followed over stripe payments of one order
RefundGatewayTypes == {"stripe"}
RefundPayTxnIds == {"tx1"}
\* what a gateway may throw: Error instances, or a value that is no Error
GatewayThrows == {[isError |-> TRUE, message |-> "declined"],
                  [isError |-> FALSE, message |-> ""]}
NoThrow == [isError |-> FALSE, message |-> "none"]
RefundGatewayThrows == {[isError |-> TRUE, message |-> "declined"]}

\* no PaymentService method touches the clock or another component's rows
PaymentFrame == UNCHANGED <<clockVars, cartVars, dlVars, orderVars, prodVars>>

PpCallIds == DOMAIN ppCalls

\* registerGateway
RegisterGateway(type) ==
    /\ PaymentFrame
    /\ gateways' = gateways \cup {type}
    /\ UNCHANGED <<payments, refunds, ppCalls, refundLog, rfCalls>>

\* the row of the payment routes, which insert with status processing
NewPaymentRowProcessing(orderId, amount) ==
    [orderId |-> orderId, amount |-> amount, status |-> "processing",
     transactionId |-> NullText, errorMessage |-> NullText]

\* createPayment: the row as inserted
NewPaymentRow(orderId, amount) ==
    [orderId |-> orderId, amount |-> amount, status |-> "pending",
     transactionId |-> NullText, errorMessage |-> NullText]

\* processPayment, lines 193-199: await createPayment
PpCreate(type, orderId, amount) ==
    /\ PaymentFrame
    /\ Cardinality(PpCallIds) < MaxPpCalls
    /\ LET id == Cardinality(DOMAIN payments) + 1
       IN  /\ payments' = (id :> NewPaymentRow(orderId, amount)) @@ payments
           /\ ppCalls' = (Cardinality(PpCallIds) + 1 :>
                            [type |-> type, orderId |-> orderId, amount |-> amount,
                             paymentId |-> id, pc |-> "created", gwCalls |-> 0,
                             gwTxn |-> NullText, thrown |-> NoThrow,
                             outcome |-> "running", raised |-> NoThrow])
                         @@ ppCalls
    /\ UNCHANGED <<gateways, refunds, refundLog, rfCalls>>

\* a lookup that falls back to the stripe handler, as processRefund does
HasGatewayOrStripe(gws, type) == type \in gws \/ "stripe" \in gws

\* this.gateways.get(type) is defined
HasGateway(gws, type) == type \in gws

\* processPayment, lines 201-212: look the gateway up; throw, or call gateway.process
PpLookup(c) ==
    /\ PaymentFrame
    /\ c \in PpCallIds /\ ppCalls[c].pc = "created"
    /\ ppCalls' = IF HasGateway(gateways, ppCalls[c].type)
                  THEN [ppCalls EXCEPT ![c].pc = "inGateway", ![c].gwCalls = @ + 1]
                  ELSE [ppCalls EXCEPT ![c].pc = "done",
                                       ![c].outcome = "ConfigurationError"]
    /\ UNCHANGED <<gateways, payments, refunds, refundLog, rfCalls>>

\* gateway.process returns a transaction id
PpGatewayReturns(c, txn) ==
    /\ PaymentFrame
    /\ c \in PpCallIds /\ ppCalls[c].pc = "inGateway"
    /\ ppCalls' = [ppCalls EXCEPT ![c].pc = "returned", ![c].gwTxn = txn]
    /\ UNCHANGED <<gateways, payments, refunds, refundLog, rfCalls>>

\* gateway.process throws
PpGatewayThrows(c, err) ==
    /\ PaymentFrame
    /\ c \in PpCallIds /\ ppCalls[c].pc = "inGateway"
    /\ ppCalls' = [ppCalls EXCEPT ![c].pc = "threw", ![c].thrown = err]
    /\ UNCHANGED <<gateways, payments, refunds, refundLog, rfCalls>>

\* an UPDATE that records the failure and drops the message
MarkFailedNoMessage(ps, id, msg) ==
    IF id \in DOMAIN ps THEN [ps EXCEPT ![id].status = "failed"] ELSE ps

\* an UPDATE that marks every payment of the order completed
MarkCompletedForOrder(ps, id, txn) ==
    IF id \in DOMAIN ps
    THEN [p \in DOMAIN ps |->
             IF ps[p].orderId = ps[id].orderId
             THEN [ps[p] EXCEPT !.status = "completed", !.transactionId = txn]
             ELSE ps[p]]
    ELSE ps

\* UPDATE payments SET status = 'completed', transaction_id = ? WHERE id = ?
MarkCompleted(ps, id, txn) ==
    IF id \in DOMAIN ps
    THEN [ps EXCEPT ![id].status = "completed", ![id].transactionId = txn]
    ELSE ps

\* UPDATE payments SET status = 'failed', error_message = ? WHERE id = ?
MarkFailed(ps, id, msg) ==
    IF id \in DOMAIN ps
    THEN [ps EXCEPT ![id].status = "failed", ![id].errorMessage = msg]
    ELSE ps

\* error instanceof Error ? error.message : 'Unknown error'
ErrorMessage(err) == IF err.isError THEN err.message ELSE "Unknown error"

\* processPayment, lines 214-224: record the success and return the payment
PpRecordCompleted(c) ==
    /\ PaymentFrame
    /\ c \in PpCallIds /\ ppCalls[c].pc = "returned"
    /\ payments' = MarkCompleted(payments, ppCalls[c].paymentId, ppCalls[c].gwTxn)
    /\ ppCalls' = [ppCalls EXCEPT ![c].pc = "done", ![c].outcome = "returned"]
    /\ UNCHANGED <<gateways, refunds, refundLog, rfCalls>>

\* what the database throws when a statement fails
DbError == [isError |-> TRUE, message |-> "D1_ERROR"]

\* processPayment, lines 214-218 when the UPDATE that records 'completed' fails: it
\* is inside the try, so the catch block takes the database's error
PpCompletedUpdateFails(c) ==
    /\ PaymentFrame
    /\ c \in PpCallIds /\ ppCalls[c].pc = "returned"
    /\ ppCalls' = [ppCalls EXCEPT ![c].pc = "threw", ![c].thrown = DbError]
    /\ UNCHANGED <<gateways, payments, refunds, refundLog, rfCalls>>

\* processPayment, lines 225-238: record the failure and rethrow
PpRecordFailed(c) ==
    /\ PaymentFrame
    /\ c \in PpCallIds /\ ppCalls[c].pc = "threw"
    /\ payments' = MarkFailed(payments, ppCalls[c].paymentId,
                              ErrorMessage(ppCalls[c].thrown))
    /\ ppCalls' = [ppCalls EXCEPT ![c].pc = "done", ![c].outcome = "threw",
                                  ![c].raised = ppCalls[c].thrown]
    /\ UNCHANGED <<gateways, refunds, refundLog, rfCalls>>

\* a payment id is known to a caller only once a payment row has it; 0 names none
KnownPaymentIds == 0 .. Cardinality(DOMAIN payments)
KnownRefundIds == 0 .. Cardinality(DOMAIN refunds)
\* createRefund is given the id of a payment, an id that names none, or no id
RefundPaymentIdInputs == KnownPaymentIds \cup {Null}

\* createRefund: the INSERT, with no check of the amount
CreateRefund(orderId, paymentId, amount) ==
    /\ PaymentFrame
    /\ Cardinality(DOMAIN refunds) < MaxRefunds
    /\ refunds' = (Cardinality(DOMAIN refunds) + 1 :>
                      [orderId |-> orderId, paymentId |-> paymentId, amount |-> amount,
                       status |-> "pending", transactionId |-> NullText])
                  @@ refunds
    /\ UNCHANGED <<gateways, payments, ppCalls, refundLog, rfCalls>>

\* processRefund, lines 314-327: why the call fails before the gateway is called
RefundPrecheck(refundId) ==
    IF refundId \notin DOMAIN refunds THEN "RefundNotFound"
    ELSE IF refunds[refundId].paymentId = Null THEN "NoPaymentId"
    ELSE IF refunds[refundId].paymentId \notin DOMAIN payments THEN "PaymentNotFound"
    ELSE IF ~HasGateway(gateways, "stripe") THEN "GatewayNotAvailable"
    ELSE "ok"

\* payment.transactionId || ''
TxnOrEmpty(txn) == IF txn = NullText THEN "" ELSE txn

\* processRefund, lines 330-334: what gateway.refund is handed
RefundRequest(refundId) ==
    [refundId |-> refundId,
     transactionId |-> TxnOrEmpty(payments[refunds[refundId].paymentId].transactionId),
     amount |-> refunds[refundId].amount,
     paymentAmount |-> payments[refunds[refundId].paymentId].amount]

\* a processRefund call that has not called gateway.refund has handed it nothing
NoRequest == [refundId |-> 0, transactionId |-> "none", amount |-> 0, paymentAmount |-> 0]

RfCallIds == DOMAIN rfCalls

\* processRefund, lines 314-334: load the refund and its payment, look the stripe
\* gateway up; throw, or call gateway.refund
RfStart(refundId) ==
    /\ PaymentFrame
    /\ Cardinality(RfCallIds) < MaxRfCalls
    /\ LET c == Cardinality(RfCallIds) + 1
           why == RefundPrecheck(refundId)
       IN  IF why = "ok"
           THEN /\ rfCalls' = (c :> [refundId |-> refundId, pc |-> "inGateway",
                                     gateway |-> "stripe",
                                     request |-> RefundRequest(refundId),
                                     gwTxn |-> NullText, thrown |-> NoThrow,
                                     outcome |-> "running", raised |-> NoThrow])
                              @@ rfCalls
                /\ refundLog' = refundLog \cup {RefundRequest(refundId)}
           ELSE /\ rfCalls' = (c :> [refundId |-> refundId, pc |-> "done",
                                     gateway |-> NullText,
                                     request |-> NoRequest,
                                     gwTxn |-> NullText, thrown |-> NoThrow,
                                     outcome |-> why, raised |-> NoThrow])
                              @@ rfCalls
                /\ UNCHANGED refundLog
    /\ UNCHANGED <<gateways, payments, refunds, ppCalls>>

\* gateway.refund returns a transaction id
RfGatewayReturns(c, txn) ==
    /\ PaymentFrame
    /\ c \in RfCallIds /\ rfCalls[c].pc = "inGateway"
    /\ rfCalls' = [rfCalls EXCEPT ![c].pc = "returned", ![c].gwTxn = txn]
    /\ UNCHANGED <<gateways, payments, refunds, ppCalls, refundLog>>

\* gateway.refund throws
RfGatewayThrows(c, err) ==
    /\ PaymentFrame
    /\ c \in RfCallIds /\ rfCalls[c].pc = "inGateway"
    /\ rfCalls' = [rfCalls EXCEPT ![c].pc = "threw", ![c].thrown = err]
    /\ UNCHANGED <<gateways, payments, refunds, ppCalls, refundLog>>

\* an UPDATE that marks the refund completed and drops the transaction id
MarkRefundCompletedNoTxn(rs, id, txn) ==
    IF id \in DOMAIN rs THEN [rs EXCEPT ![id].status = "completed"] ELSE rs

\* UPDATE refunds SET status = 'completed', transaction_id = ? WHERE id = ?
MarkRefundCompleted(rs, id, txn) ==
    IF id \in DOMAIN rs
    THEN [rs EXCEPT ![id].status = "completed", ![id].transactionId = txn]
    ELSE rs

\* UPDATE refunds SET status = 'failed' WHERE id = ?
MarkRefundFailed(rs, id) ==
    IF id \in DOMAIN rs THEN [rs EXCEPT ![id].status = "failed"] ELSE rs

\* processRefund, lines 336-345: record the success and return the refund
RfRecordCompleted(c) ==
    /\ PaymentFrame
    /\ c \in RfCallIds /\ rfCalls[c].pc = "returned"
    /\ refunds' = MarkRefundCompleted(refunds, rfCalls[c].refundId, rfCalls[c].gwTxn)
    /\ rfCalls' = [rfCalls EXCEPT ![c].pc = "done", ![c].outcome = "returned"]
    /\ UNCHANGED <<gateways, payments, ppCalls, refundLog>>

\* processRefund, lines 346-353: record the failure and rethrow
RfRecordFailed(c) ==
    /\ PaymentFrame
    /\ c \in RfCallIds /\ rfCalls[c].pc = "threw"
    /\ refunds' = MarkRefundFailed(refunds, rfCalls[c].refundId)
    /\ rfCalls' = [rfCalls EXCEPT ![c].pc = "done", ![c].outcome = "threw",
                                  ![c].raised = rfCalls[c].thrown]
    /\ UNCHANGED <<gateways, payments, ppCalls, refundLog>>

PaymentNext ==
    \/ \E t \in GatewayTypes : RegisterGateway(t)
    \/ \E t \in GatewayTypes, o \in PayOrderIds, a \in PayAmounts : PpCreate(t, o, a)
    \/ \E c \in 1 .. MaxPpCalls : PpLookup(c)
    \/ \E c \in 1 .. MaxPpCalls, txn \in TxnIds : PpGatewayReturns(c, txn)
    \/ \E c \in 1 .. MaxPpCalls, err \in GatewayThrows : PpGatewayThrows(c, err)
    \/ \E c \in 1 .. MaxPpCalls : PpRecordCompleted(c)
    \/ \E c \in 1 .. MaxPpCalls : PpRecordFailed(c)

\* processPayment over a database whose UPDATE may fail
PaymentFaultNext ==
    \/ \E t \in GatewayTypes : RegisterGateway(t)
    \/ \E t \in GatewayTypes, o \in PayOrderIds, a \in PayAmounts : PpCreate(t, o, a)
    \/ \E c \in 1 .. MaxPpCalls : PpLookup(c)
    \/ \E c \in 1 .. MaxPpCalls, txn \in TxnIds : PpGatewayReturns(c, txn)
    \/ \E c \in 1 .. MaxPpCalls, err \in GatewayThrows : PpGatewayThrows(c, err)
    \/ \E c \in 1 .. MaxPpCalls : PpRecordCompleted(c)
    \/ \E c \in 1 .. MaxPpCalls : PpCompletedUpdateFails(c)
    \/ \E c \in 1 .. MaxPpCalls : PpRecordFailed(c)

\* the refund flow, over payments that stripe has or has not settled
RefundNext ==
    \/ \E t \in RefundGatewayTypes : RegisterGateway(t)
    \/ \E t \in RefundGatewayTypes, o \in RefundOrderIds, a \in PayAmounts : PpCreate(t, o, a)
    \/ \E c \in 1 .. MaxPpCalls : PpLookup(c)
    \/ \E c \in 1 .. MaxPpCalls, txn \in RefundPayTxnIds : PpGatewayReturns(c, txn)
    \/ \E c \in 1 .. MaxPpCalls, err \in RefundGatewayThrows : PpGatewayThrows(c, err)
    \/ \E c \in 1 .. MaxPpCalls : PpRecordCompleted(c)
    \/ \E c \in 1 .. MaxPpCalls : PpRecordFailed(c)
    \/ \E o \in RefundOrderIds, p \in RefundPaymentIdInputs, a \in RefundAmounts :
          CreateRefund(o, p, a)
    \/ \E r \in KnownRefundIds : RfStart(r)
    \/ \E c \in 1 .. MaxRfCalls, txn \in RefundTxnIds : RfGatewayReturns(c, txn)
    \/ \E c \in 1 .. MaxRfCalls, err \in RefundGatewayThrows : RfGatewayThrows(c, err)
    \/ \E c \in 1 .. MaxRfCalls : RfRecordCompleted(c)
    \/ \E c \in 1 .. MaxRfCalls : RfRecordFailed(c)

\* refunds of payments that went through either gateway type
RefundGatewayNext ==
    \/ \E t \in GatewayTypes : RegisterGateway(t)
    \/ \E t \in GatewayTypes, o \in RefundOrderIds, a \in PayAmounts : PpCreate(t, o, a)
    \/ \E c \in 1 .. MaxPpCalls : PpLookup(c)
    \/ \E c \in 1 .. MaxPpCalls, txn \in RefundPayTxnIds : PpGatewayReturns(c, txn)
    \/ \E c \in 1 .. MaxPpCalls : PpRecordCompleted(c)
    \/ \E o \in RefundOrderIds, p \in KnownPaymentIds : CreateRefund(o, p, 50)
    \/ \E r \in KnownRefundIds : RfStart(r)

(***************************************************************************)
(* Order pipeline                                                          *)
(*                                                                         *)
(* Every OrderService method is a single statement, except updateOrder,    *)
(* which reads the order and then writes the merged row back: two actions. *)
(* The order number is "ORD-" followed by Date.now(); it is modelled by    *)
(* that clock value.  The notes and metadata columns are left out.         *)
(***************************************************************************)
MaxOrders == 2
MaxOrderItems == 1
MaxUoCalls == 1
MaxOrderOps == 2

OrderStoreIds == {"S1", "S2"}
LifecycleStoreIds == {"S1"}
Unset == "unset"
\* createOrder inputs: the amounts are stored exactly as supplied
OrderAmounts == {[subtotal |-> 100, tax |-> 8, shipping |-> 10, discount |-> 0, total |-> 118],
                 [subtotal |-> 50, tax |-> 0, shipping |-> 0, discount |-> 5, total |-> 40]}
RouteTotals == {0, 118}
OrderStatusInputs == {"paid", "shipped", "cancelled"}
PaymentStatusInputs == {"paid", "refunded"}
ShippingStatusInputs == {"shipped"}
\* UpdateOrderInput: every field is optional
UpdateOrderInputs ==
    {[status |-> "shipped", paymentStatus |-> Unset, shippingStatus |-> "shipped"],
     [status |-> Unset, paymentStatus |-> "refunded", shippingStatus |-> Unset]}
OrderItemInputs == {[productId |-> 1, productName |-> "mug", quantity |-> 2, price |-> 50,
                     total |-> 100]}
MarkPaidPaymentIds == {Null, 7}

\* no order operation touches the clock or another component's rows
OrderFrame == UNCHANGED <<clockVars, cartVars, dlVars, payVars, prodVars>>

\* the clock advances by a millisecond
OrderTick == Tick(1) /\ UNCHANGED <<cartVars, dlVars, payVars, orderVars, prodVars>>

\* an order id is known to a caller only once an order has it; 0 names no order
KnownOrderIds == 0 .. Cardinality(DOMAIN orders)

\* `ORD-${Date.now()}`
OrderNumber(nowMs) == nowMs

\* createOrder: the row as inserted
NewOrderRow(storeId, amounts, nowMs) ==
    [storeId |-> storeId, orderNumber |-> OrderNumber(nowMs),
     status |-> "pending", paymentStatus |-> "unpaid", shippingStatus |-> "unshipped",
     subtotal |-> amounts.subtotal, tax |-> amounts.tax, shipping |-> amounts.shipping,
     discount |-> amounts.discount, total |-> amounts.total, paymentId |-> Null]

\* POST /orders: the row as inserted; the columns it does not name are NULL
RouteOrderRow(storeId, total, nowMs) ==
    [storeId |-> storeId, orderNumber |-> OrderNumber(nowMs),
     status |-> "pending", paymentStatus |-> "unpaid", shippingStatus |-> Unset,
     subtotal |-> total, tax |-> Null, shipping |-> Null,
     discount |-> Null, total |-> total, paymentId |-> Null]

\* OrderService.createOrder
CreateOrder(storeId, amounts) ==
    /\ OrderFrame
    /\ Cardinality(DOMAIN orders) < MaxOrders
    /\ orders' = (Cardinality(DOMAIN orders) + 1 :> NewOrderRow(storeId, amounts, now))
                 @@ orders
    /\ orderLast' = "ok"
    /\ UNCHANGED <<orderItems, uoCalls, orderOps>>

\* POST /orders: 400 when a required field is missing (a total of 0 counts as missing)
RouteCreateOrder(storeId, total) ==
    /\ OrderFrame
    /\ Cardinality(DOMAIN orders) < MaxOrders
    /\ IF total = 0
       THEN /\ orderLast' = "400"
            /\ UNCHANGED orders
       ELSE /\ orders' = (Cardinality(DOMAIN orders) + 1 :> RouteOrderRow(storeId, total, now))
                         @@ orders
            /\ orderLast' = "ok"
    /\ UNCHANGED <<orderItems, uoCalls, orderOps>>

\* an update starts: one more of the updates the model follows
OpStarts ==
    /\ orderOps < MaxOrderOps
    /\ orderOps' = orderOps + 1

\* updateOrder: `{...order, ...input}` for one field
Merged(old, new) == IF new = Unset THEN old ELSE new

\* an UPDATE of updateOrder that also writes the total column back, from the subtotal
WriteUpdatedWithTotal(os, id, snapshot, input) ==
    IF id \in DOMAIN os
    THEN [os EXCEPT ![id].status = Merged(snapshot.status, input.status),
                    ![id].paymentStatus = Merged(snapshot.paymentStatus, input.paymentStatus),
                    ![id].shippingStatus = Merged(snapshot.shippingStatus, input.shippingStatus),
                    ![id].total = snapshot.subtotal]
    ELSE os

\* updateOrder, lines 217-232: UPDATE orders SET status, payment_status, shipping_status
WriteUpdated(os, id, snapshot, input) ==
    IF id \in DOMAIN os
    THEN [os EXCEPT ![id].status = Merged(snapshot.status, input.status),
                    ![id].paymentStatus = Merged(snapshot.paymentStatus, input.paymentStatus),
                    ![id].shippingStatus = Merged(snapshot.shippingStatus, input.shippingStatus)]
    ELSE os

\* updateOrder, lines 202-203: getOrder; throws when there is no such order
UpdateOrderRead(id, input) ==
    /\ OrderFrame
    /\ OpStarts
    /\ IF id \in DOMAIN orders
       THEN /\ Cardinality(DOMAIN uoCalls) < MaxUoCalls
            /\ uoCalls' = (Cardinality(DOMAIN uoCalls) + 1 :>
                              [id |-> id, snapshot |-> orders[id], input |-> input])
                          @@ uoCalls
            /\ UNCHANGED orderLast
       ELSE /\ orderLast' = "OrderNotFound"
            /\ UNCHANGED uoCalls
    /\ UNCHANGED <<orders, orderItems>>

\* updateOrder, lines 205-234: write the merged row; the call is over
UpdateOrderWrite(c) ==
    /\ OrderFrame
    /\ c \in DOMAIN uoCalls /\ c = Cardinality(DOMAIN uoCalls)
    /\ orders' = WriteUpdated(orders, uoCalls[c].id, uoCalls[c].snapshot, uoCalls[c].input)
    /\ uoCalls' = [k \in DOMAIN uoCalls \ {c} |-> uoCalls[k]]
    /\ orderLast' = "ok"
    /\ UNCHANGED <<orderItems, orderOps>>

\* an UPDATE that also marks the payment refunded when it writes a cancellation
SetOrderFieldRefunding(os, id, field, v) ==
    IF id \in DOMAIN os
    THEN IF v = "cancelled"
         THEN [os EXCEPT ![id][field] = v, ![id].paymentStatus = "refunded"]
         ELSE [os EXCEPT ![id][field] = v]
    ELSE os

\* an UPDATE orders SET <field> = v WHERE id = ?
SetOrderField(os, id, field, v) ==
    IF id \in DOMAIN os THEN [os EXCEPT ![id][field] = v] ELSE os

\* updateOrderStatus
UpdateOrderStatus(id, status) ==
    /\ OrderFrame
    /\ OpStarts
    /\ orders' = SetOrderField(orders, id, "status", status)
    /\ orderLast' = "ok"
    /\ UNCHANGED <<orderItems, uoCalls>>

\* PUT /orders/:id/status: the same UPDATE, then a SELECT of the row; answers 200
\* with the row, or with null when there is none
RouteUpdateOrderStatus(id, status) ==
    /\ OrderFrame
    /\ OpStarts
    /\ orders' = SetOrderField(orders, id, "status", status)
    /\ orderLast' = "ok"
    /\ UNCHANGED <<orderItems, uoCalls>>

\* updatePaymentStatus
UpdatePaymentStatus(id, status) ==
    /\ OrderFrame
    /\ OpStarts
    /\ orders' = SetOrderField(orders, id, "paymentStatus", status)
    /\ orderLast' = "ok"
    /\ UNCHANGED <<orderItems, uoCalls>>

\* updateShippingStatus
UpdateShippingStatus(id, status) ==
    /\ OrderFrame
    /\ OpStarts
    /\ orders' = SetOrderField(orders, id, "shippingStatus", status)
    /\ orderLast' = "ok"
    /\ UNCHANGED <<orderItems, uoCalls>>

\* cancelOrder: updateOrderStatus(id, 'cancelled')
CancelOrder(id) ==
    /\ OrderFrame
    /\ OpStarts
    /\ orders' = SetOrderField(orders, id, "status", "cancelled")
    /\ orderLast' = "ok"
    /\ UNCHANGED <<orderItems, uoCalls>>

\* an UPDATE that writes the payment status and leaves the order status for later
MarkPaidRowPaymentOnly(os, id, paymentId) ==
    IF id \in DOMAIN os
    THEN [os EXCEPT ![id].paymentStatus = "paid",
                    ![id].paymentId = IF paymentId # Null THEN paymentId ELSE @]
    ELSE os

\* the UPDATE of markAsPaid; payment_id is written only when a paymentId is given
MarkPaidRow(os, id, paymentId) ==
    IF id \in DOMAIN os
    THEN [os EXCEPT ![id].paymentStatus = "paid", ![id].status = "processing",
                    ![id].paymentId = IF paymentId # Null THEN paymentId ELSE @]
    ELSE os

\* markAsPaid
MarkAsPaid(id, paymentId) ==
    /\ OrderFrame
    /\ OpStarts
    /\ orders' = MarkPaidRow(orders, id, paymentId)
    /\ orderLast' = "ok"
    /\ UNCHANGED <<orderItems, uoCalls>>

\* OrderService.addItem: INSERT INTO order_items
AddOrderItem(orderId, item) ==
    /\ OrderFrame
    /\ OpStarts
    /\ Cardinality(DOMAIN orderItems) < MaxOrderItems
    /\ orderItems' = (Cardinality(DOMAIN orderItems) + 1 :>
                         [orderId |-> orderId, productId |-> item.productId,
                          productName |-> item.productName,
                          quantity |-> item.quantity, price |-> item.price,
                          total |-> item.total])
                     @@ orderItems
    /\ orderLast' = "ok"
    /\ UNCHANGED <<orders, uoCalls>>

\* the life of orders: creation, then updates
OrderNext ==
    \/ \E s \in LifecycleStoreIds, a \in OrderAmounts : CreateOrder(s, a)
    \/ \E s \in LifecycleStoreIds, t \in RouteTotals : RouteCreateOrder(s, t)
    \/ \E id \in KnownOrderIds, input \in UpdateOrderInputs : UpdateOrderRead(id, input)
    \/ \E c \in 1 .. MaxUoCalls : UpdateOrderWrite(c)
    \/ \E id \in KnownOrderIds, st \in OrderStatusInputs : UpdateOrderStatus(id, st)
    \/ \E id \in KnownOrderIds, st \in OrderStatusInputs : RouteUpdateOrderStatus(id, st)
    \/ \E id \in KnownOrderIds, st \in PaymentStatusInputs : UpdatePaymentStatus(id, st)
    \/ \E id \in KnownOrderIds, st \in ShippingStatusInputs : UpdateShippingStatus(id, st)
    \/ \E id \in KnownOrderIds : CancelOrder(id)
    \/ \E id \in KnownOrderIds, p \in MarkPaidPaymentIds : MarkAsPaid(id, p)
    \/ \E id \in KnownOrderIds, item \in OrderItemInputs : AddOrderItem(id, item)

\* order creation in the stores of the platform, against the clock
OrderCreationNext ==
    \/ \E s \in OrderStoreIds, a \in OrderAmounts : CreateOrder(s, a)
    \/ \E s \in OrderStoreIds, t \in RouteTotals : RouteCreateOrder(s, t)
    \/ OrderTick

(***************************************************************************)
(* Product catalog                                                         *)
(*                                                                         *)
(* A product row keeps the columns the stock and snapshot rules read:      *)
(* type, name, price, stock_quantity and is_active.  Product id 0 is an id *)
(* no product ever had.  Cart items and order items carry a product id and *)
(* their own copy of the price (and, for order items, of the name).        *)
(***************************************************************************)
MaxProducts == 1

ProductTypes == {"physical", "digital"}
ProductPrices == {50}
\* CreateProductInput.stockQuantity is optional
StockInputs == {Null, 2}
\* the level handed to updateStock: one that no decrease ends at
StockLevels == {5}
\* the quantities handed to decreaseStock
DecreaseQuantities == {1, 3}
\* UpdateProductInput: every field is optional
UpdateProductInputs == {[name |-> "cup", price |-> 60, stockQuantity |-> Null],
                        [name |-> NullText, price |-> Null, stockQuantity |-> 5]}

\* a product id is known to a caller only once createProduct has returned it
KnownProductIds == 0 .. prodSeq

\* ProductFrame with the statement also rewriting the price of every cart item
ProductFrameRepricing ==
    /\ UNCHANGED <<clockVars, dlVars, payVars, orderVars, dsCalls>>
    /\ UNCHANGED <<carts, cartSeq, cartLast, aiCalls>>
    /\ cartItems' = [i \in DOMAIN cartItems |-> [cartItems[i] EXCEPT !.price = 0]]

\* every ProductService statement names the table products and no other
ProductFrame == UNCHANGED <<clockVars, cartVars, dlVars, payVars, orderVars, dsCalls>>

\* createProduct: the row as inserted
NewProductRow(type, price, stockQuantity) ==
    [type |-> type, name |-> "mug", price |-> price,
     stockQuantity |-> IF Truthy(stockQuantity) THEN stockQuantity ELSE 0,
     isActive |-> TRUE]

\* createProduct
CreateProduct(type, price, stockQuantity) ==
    /\ ProductFrame
    /\ prodSeq < MaxProducts
    /\ products' = (prodSeq + 1 :> NewProductRow(type, price, stockQuantity)) @@ products
    /\ prodSeq' = prodSeq + 1
    /\ prodLast' = "ok"

\* updateProduct: { ...product, ...input } with type kept from the product
MergedProduct(product, input) ==
    [product EXCEPT
        !.name = IF input.name = NullText THEN @ ELSE input.name,
        !.price = IF input.price = Null THEN @ ELSE input.price,
        !.stockQuantity = IF input.stockQuantity = Null THEN @ ELSE input.stockQuantity]

\* updateProduct: getProduct, throw when there is none, UPDATE products
UpdateProduct(id, input) ==
    /\ ProductFrame
    /\ IF id \notin DOMAIN products
       THEN /\ prodLast' = "ProductNotFound"
            /\ UNCHANGED <<products, prodSeq>>
       ELSE /\ products' = [products EXCEPT ![id] = MergedProduct(@, input)]
            /\ prodLast' = "ok"
            /\ UNCHANGED prodSeq

\* an UPDATE products SET <field> = v WHERE id = ?
SetProductField(ps, id, field, v) ==
    IF id \in DOMAIN ps THEN [ps EXCEPT ![id][field] = v] ELSE ps

\* updateStock: UPDATE products SET stock_quantity = ?
UpdateStock(id, quantity) ==
    /\ ProductFrame
    /\ products' = SetProductField(products, id, "stockQuantity", quantity)
    /\ prodLast' = "ok"
    /\ UNCHANGED prodSeq

\* the subtraction without the MAX
DecreasedStockUnclamped(stockQuantity, quantity) == stockQuantity - quantity

\* SQL MAX(0, stock_quantity - ?)
DecreasedStock(stockQuantity, quantity) ==
    IF stockQuantity - quantity > 0 THEN stockQuantity - quantity ELSE 0

\* decreaseStock: UPDATE products SET stock_quantity = MAX(0, stock_quantity - ?)
DecreaseStock(id, quantity) ==
    /\ ProductFrame
    /\ products' = IF id \in DOMAIN products
                   THEN SetProductField(products, id, "stockQuantity",
                            DecreasedStock(products[id].stockQuantity, quantity))
                   ELSE products
    /\ prodLast' = "ok"
    /\ UNCHANGED prodSeq

\* activateProduct: UPDATE products SET is_active = 1
ActivateProduct(id) ==
    /\ ProductFrame
    /\ products' = SetProductField(products, id, "isActive", TRUE)
    /\ prodLast' = "ok"
    /\ UNCHANGED prodSeq

\* deactivateProduct: UPDATE products SET is_active = 0
DeactivateProduct(id) ==
    /\ ProductFrame
    /\ products' = SetProductField(products, id, "isActive", FALSE)
    /\ prodLast' = "ok"
    /\ UNCHANGED prodSeq

\* deleteProduct: DELETE FROM products WHERE id = ?
DeleteProduct(id) ==
    /\ ProductFrame
    /\ products' = [p \in DOMAIN products \ {id} |-> products[p]]
    /\ prodLast' = "ok"
    /\ UNCHANGED prodSeq

\* ---- decreaseStock calls issued together ----
MaxDsCalls == 2

\* a step of a running call touches nothing outside the table products
ProductStepFrame == UNCHANGED <<clockVars, cartVars, dlVars, payVars, orderVars>>

DsCallIds == DOMAIN dsCalls

\* decreaseStock is called: the arguments are bound, the statement is yet to run
DsIssue(id, quantity) ==
    /\ ProductStepFrame
    /\ Cardinality(DsCallIds) < MaxDsCalls
    /\ dsCalls' = (Cardinality(DsCallIds) + 1 :>
                      [productId |-> id, quantity |-> quantity, pc |-> "run"])
                  @@ dsCalls
    /\ UNCHANGED <<products, prodSeq, prodLast>>

\* the database executes the call's single UPDATE; the calls issued together run
\* in whatever order it picks
DsRun(c) ==
    /\ ProductStepFrame
    /\ dsCalls[c].pc = "run"
    /\ products' = IF dsCalls[c].productId \in DOMAIN products
                   THEN SetProductField(products, dsCalls[c].productId, "stockQuantity",
                            DecreasedStock(products[dsCalls[c].productId].stockQuantity,
                                           dsCalls[c].quantity))
                   ELSE products
    /\ dsCalls' = [dsCalls EXCEPT ![c].pc = "done"]
    /\ prodLast' = "ok"
    /\ UNCHANGED prodSeq

\* products created with a stock of StockLevels, and decreaseStock their only writer
StockRaceNext ==
    \/ \E t \in ProductTypes, p \in ProductPrices, q \in StockLevels : CreateProduct(t, p, q)
    \/ \E id \in KnownProductIds, q \in DecreaseQuantities : DsIssue(id, q)
    \/ \E c \in DsCallIds : DsRun(c)

\* the catalog, with a cart and an order whose items name its products
ProductNext ==
    \/ \E t \in ProductTypes, p \in ProductPrices, q \in StockInputs : CreateProduct(t, p, q)
    \/ \E id \in KnownProductIds, input \in UpdateProductInputs : UpdateProduct(id, input)
    \/ \E id \in KnownProductIds, q \in StockLevels : UpdateStock(id, q)
    \/ \E id \in KnownProductIds, q \in DecreaseQuantities : DecreaseStock(id, q)
    \/ \E id \in KnownProductIds : ActivateProduct(id)
    \/ \E id \in KnownProductIds : DeactivateProduct(id)
    \/ \E id \in KnownProductIds : DeleteProduct(id)
    \/ CreateCart("S1", "u1", "")
    \/ \E c \in DOMAIN carts, id \in DOMAIN products :
           AddItem(c, id, 1, products[id].price * 10)
    \/ \E id \in DOMAIN products, item \in OrderItemInputs :
           AddOrderItem(0, [item EXCEPT !.productId = id, !.productName = products[id].name,
                                        !.price = products[id].price,
                                        !.total = 2 * products[id].price])

(***************************************************************************)
(* Initial state and specifications                                        *)
(***************************************************************************)
\* every table empty, no call in flight
InitTables ==
    /\ ticks = 0
    /\ carts = <<>> /\ cartItems = <<>>
    /\ cartSeq = [carts |-> 0, items |-> 0]
    /\ cartLast = "ok" /\ aiCalls = <<>>
    /\ digitalDownloads = {} /\ r2Objects = {} /\ downloadLinks = <<>>
    /\ dlSeq = [downloads |-> 0, links |-> 0]
    /\ dlCalls = <<>> /\ routeLast = "none"
    /\ gateways = {} /\ payments = <<>> /\ refunds = <<>> /\ ppCalls = <<>>
    /\ refundLog = {} /\ rfCalls = <<>>
    /\ orders = <<>> /\ orderItems = <<>> /\ uoCalls = <<>> /\ orderOps = 0
    /\ orderLast = "ok"
    /\ products = <<>> /\ prodSeq = 0 /\ prodLast = "ok" /\ dsCalls = <<>>

Init == now = 0 /\ InitTables

\* the same start with the clock's origin placed so that a month of milliseconds
\* fits the 32-bit integers of the checker; cart code compares clock values only
InitCartExpiry == now = -2000000000 /\ InitTables

\* carts of every kind of owner, ageing and purged
CartExpiryNext ==
    \/ \E u \in OwnerInputs, se \in OwnerInputs : CreateCart("S1", u, se)
    \/ \E c \in KnownCartIds : AddItem(c, 1, 1, 500)
    \/ \E step \in CartClockSteps : CartTick(step)
    \/ DeleteExpiredCarts

SpecCart == Init /\ [][CartNext]_vars
SpecCartExpiry == InitCartExpiry /\ [][CartExpiryNext]_vars
SpecCartRace == Init /\ [][CartRaceNext]_vars
SpecProduct == Init /\ [][ProductNext]_vars
SpecStockRace == Init /\ [][StockRaceNext]_vars
SpecDownload == Init /\ [][DownloadNext]_vars
SpecDownloadRoute == Init /\ [][DownloadRouteNext]_vars
SpecPayment == Init /\ [][PaymentNext]_vars
SpecPaymentFault == Init /\ [][PaymentFaultNext]_vars
SpecRefund == Init /\ [][RefundNext]_vars
SpecRefundGateway == Init /\ [][RefundGatewayNext]_vars
SpecOrder == Init /\ [][OrderNext]_vars
SpecOrderCreation == Init /\ [][OrderCreationNext]_vars

(***************************************************************************)
(* Cart engine: properties                                                 *)
(***************************************************************************)

\* C1: after every completed CartService call, each cart's stored total_tax is
\* subtotal * taxRate / 100 and its stored total_price is subtotal + that tax +
\* total_shipping - coupon_discount, the subtotal being summed over the cart's
\* current items.  Both sides are scaled by 100 so that no division is involved.
CartTotalIdentity ==
    \A c \in DOMAIN carts :
        LET subtotal == SumOver([i \in DOMAIN cartItems |->
                                    cartItems[i].price * cartItems[i].quantity],
                                {i \in DOMAIN cartItems : cartItems[i].cartId = c})
            rate == TaxRateOf(carts[c].storeId)
        IN  /\ 100 * carts[c].totalTax = subtotal * rate
            /\ 100 * carts[c].totalPrice =
                   100 * subtotal + subtotal * rate
                   + 100 * carts[c].totalShipping - 100 * carts[c].couponDiscount

\* the cart of the scenario: (qty 2, 10.00) and (qty 1, 5.00) at 10%, shipping 5.00,
\* discount 3.00, tax 2.50, total 29.50
CartTotalWitness ==
    \E c \in DOMAIN carts :
        /\ carts[c].storeId = "S1"
        /\ \E i, j \in DOMAIN cartItems :
              /\ i # j
              /\ cartItems[i] = [cartId |-> c, productId |-> 1, quantity |-> 2, price |-> 1000]
              /\ cartItems[j] = [cartId |-> c, productId |-> 1, quantity |-> 1, price |-> 500]
        /\ carts[c].totalShipping = 500
        /\ carts[c].couponDiscount = 300
        /\ carts[c].totalTax = 250
        /\ carts[c].totalPrice = 2950

\* C23: updateItem(itemId, quantity) on an id no item has fails with the item
\* not-found error and changes no row; on an existing item with quantity <= 0 it
\* removes the item; otherwise it sets the item's quantity to the given value and
\* leaves its price; no other item changes, and when the call succeeds the cart's
\* totals are the recompute over the resulting items
UpdateItemOutcome ==
    [][ \A i \in ItemIdInputs, q \in Quantities :
          UpdateItem(i, q) =>
            IF i \notin DOMAIN cartItems
            THEN cartLast' = "ItemNotFound" /\ UNCHANGED <<carts, cartItems>>
            ELSE LET c == cartItems[i].cartId
                 IN  /\ IF q <= 0
                        THEN i \notin DOMAIN cartItems'
                        ELSE /\ i \in DOMAIN cartItems'
                             /\ cartItems'[i] = [cartItems[i] EXCEPT !.quantity = q]
                     /\ \A j \in DOMAIN cartItems \ {i} :
                            j \in DOMAIN cartItems' /\ cartItems'[j] = cartItems[j]
                     /\ DOMAIN cartItems' \subseteq DOMAIN cartItems
                     /\ cartLast' = "ok" =>
                            /\ c \in DOMAIN carts
                            /\ carts' = RecalculateCart(carts, cartItems', c)
      ]_vars

\* an item holds quantity 2, which only updateItem hands in, at the price it was
\* added with, and its cart's totals are those of the new quantity; and an
\* updateItem or removeItem on a missing id has been refused
UpdateItemOutcomeWitness ==
    /\ cartLast = "ItemNotFound"
    /\ \E c \in DOMAIN carts, i \in DOMAIN cartItems :
          /\ cartItems[i] = [cartId |-> c, productId |-> 1, quantity |-> 2, price |-> 500]
          /\ ItemsOf(cartItems, c) = {i}
          /\ carts[c].storeId = "S1"
          /\ carts[c].totalTax = 100
          /\ carts[c].totalPrice = 1100 + carts[c].totalShipping - carts[c].couponDiscount

\* C24: every cart item in every reachable state has quantity >= 1, whatever
\* quantities addItem and updateItem are called with
CartItemQuantityPositive ==
    \A i \in DOMAIN cartItems : cartItems[i].quantity >= 1

\* C25: addItem, clearCart, applyCoupon, removeCoupon and setShipping on a cart id
\* no cart has fail with the cart not-found error, and updateItem and removeItem
\* on an item id no item has fail with the item not-found error
MissingIdFails ==
    [][ /\ \A c \in KnownCartIds \ DOMAIN carts :
              (\/ \E q \in AddQuantities, p \in Prices : AddItem(c, 1, q, p)
               \/ ClearCart(c)
               \/ \E d \in Discounts : ApplyCoupon(c, d)
               \/ RemoveCoupon(c)
               \/ \E sh \in ShippingCosts : SetShipping(c, sh))
              => cartLast' = "CartNotFound"
        /\ \A i \in ItemIdInputs \ DOMAIN cartItems :
              ((\E q \in Quantities : UpdateItem(i, q)) \/ RemoveItem(i))
              => cartLast' = "ItemNotFound"
      ]_vars

\* C26: clearCart on an existing cart leaves it without items and with
\* total_price, total_tax, total_shipping and coupon_discount all 0, and leaves
\* every other cart and the items of every other cart as they were
ClearCartEffect ==
    [][ \A c \in DOMAIN carts :
          ClearCart(c) =>
            /\ ItemsOf(cartItems', c) = {}
            /\ c \in DOMAIN carts'
            /\ carts'[c].totalPrice = 0 /\ carts'[c].totalTax = 0
            /\ carts'[c].totalShipping = 0 /\ carts'[c].couponDiscount = 0
            /\ DOMAIN carts' = DOMAIN carts
            /\ \A d \in DOMAIN carts \ {c} : carts'[d] = carts[d]
            /\ \A i \in DOMAIN cartItems :
                  cartItems[i].cartId # c =>
                      i \in DOMAIN cartItems' /\ cartItems'[i] = cartItems[i]
      ]_vars

\* both item ids have been handed out; cart 1 has lost its item and has all four
\* totals at 0, while cart 2 keeps its item, its shipping cost and its totals
ClearCartEffectWitness ==
    /\ DOMAIN carts = {1, 2}
    /\ cartSeq.items = 2
    /\ ItemsOf(cartItems, 1) = {}
    /\ carts[1].totalPrice = 0 /\ carts[1].totalTax = 0
    /\ carts[1].totalShipping = 0 /\ carts[1].couponDiscount = 0
    /\ \E i \in DOMAIN cartItems :
          cartItems[i] = [cartId |-> 2, productId |-> 1, quantity |-> 1, price |-> 1000]
    /\ carts[2].storeId = "S1"
    /\ carts[2].totalShipping = 500 /\ carts[2].couponDiscount = 300
    /\ carts[2].totalTax = 100 /\ carts[2].totalPrice = 1300
    /\ cartLast = "ok"

\* C27: after deleteExpiredCarts no cart whose expiresAt is earlier than the
\* clock remains, no cart item remains whose cartId names a cart it purged, and
\* every cart that has not expired is unchanged and keeps its items
ExpiredCartsPurged ==
    [][ DeleteExpiredCarts =>
          /\ \A c \in DOMAIN carts' : ~(carts'[c].expiresAt < Seconds(now))
          /\ \A i \in DOMAIN cartItems' :
                cartItems'[i].cartId \notin DOMAIN carts \ DOMAIN carts'
          /\ \A c \in DOMAIN carts :
                ~(carts[c].expiresAt < Seconds(now)) =>
                    /\ c \in DOMAIN carts' /\ carts'[c] = carts[c]
                    /\ \A i \in ItemsOf(cartItems, c) :
                          i \in DOMAIN cartItems' /\ cartItems'[i] = cartItems[i]
      ]_vars

\* C28: every stored cart has exactly one of userId and sessionId set
CartOwnerExclusive ==
    \A c \in DOMAIN carts :
        (carts[c].userId # NullText) # (carts[c].sessionId # NullText)

\* C30: two addItem calls on one cart can interleave, statement by statement,
\* so that both complete and the stored total_price differs from the recompute
\* over the cart's final items, shipping and discount (the witness); it happens
\* only when a completed call read the items before the other's INSERT
StaleTotalOnlyFromStaleRead ==
    \A k \in DOMAIN carts :
        (/\ \A c \in AiCallIds : aiCalls[c].pc \in {"done", "failed"}
         /\ \E c \in AiCallIds : aiCalls[c].cartId = k
         /\ carts[k].totalPrice # RecalculateCart(carts, cartItems, k)[k].totalPrice)
        => \E c \in AiCallIds :
               /\ aiCalls[c].cartId = k /\ aiCalls[c].pc = "done"
               /\ aiCalls[c].seen # ItemsOf(cartItems, k)

\* both addItem calls on cart 1 have completed, the cart holds both items, and
\* its stored total_price is not the recompute over them
StaleTotalWitness ==
    /\ 1 \in DOMAIN carts
    /\ Cardinality(AiCallIds) = 2
    /\ \A c \in AiCallIds : aiCalls[c].cartId = 1 /\ aiCalls[c].pc = "done"
    /\ Cardinality(ItemsOf(cartItems, 1)) = 2
    /\ carts[1].totalPrice # RecalculateCart(carts, cartItems, 1)[1].totalPrice

\* C37: an addItem that fails because no cart has the given id leaves the set of
\* cart items as it was
FailedAddItemStoresNothing ==
    [][ \A c \in KnownCartIds \ DOMAIN carts, q \in AddQuantities, p \in Prices :
          AddItem(c, 1, q, p) => cartLast' = "CartNotFound" /\ cartItems' = cartItems
      ]_vars

\* C39: the stored total_price of every cart is >= 0 in every reachable state
CartTotalNonNegative ==
    \A c \in DOMAIN carts : carts[c].totalPrice >= 0

(***************************************************************************)
(* Digital fulfillment: properties                                         *)
(***************************************************************************)

\* C2: a link with maxDownloads set never has downloadCount > maxDownloads
DownloadCountBound ==
    \A l \in DOMAIN downloadLinks :
        downloadLinks[l].maxDownloads # Null
            => downloadLinks[l].downloadCount <= downloadLinks[l].maxDownloads

\* C3: when the only two getDownloadFile calls on a link with maxDownloads = 1 have
\* both ended, and neither ended for a reason other than the limit (the download
\* row and its object are there, the link has not expired), one of them returned
\* the file and the other failed with the limit-reached error
ExactlyOneDownloadSucceeds ==
    \A l \in DOMAIN downloadLinks : \A c1, c2 \in DlCallIds :
        ( /\ c1 # c2
          /\ downloadLinks[l].maxDownloads = 1
          /\ downloadLinks[l].digitalDownloadId \in digitalDownloads \cap r2Objects
          /\ {c \in DlCallIds : dlCalls[c].token = l} = {c1, c2}
          /\ dlCalls[c1].pc = "done" /\ dlCalls[c2].pc = "done"
          /\ {dlCalls[c1].result, dlCalls[c2].result} \subseteq {"file", "LimitReached"} )
        => {dlCalls[c1].result, dlCalls[c2].result} = {"file", "LimitReached"}

\* C14: a getDownloadFile call that starts after the link's expiresAt ends at once
\* with the expired error and changes no row; a call that has ended does nothing
\* more, and only a running call that has loaded its download increments a count
ExpiredLinkServesNothing ==
    [][ /\ \A c \in DOMAIN dlCalls' \ DlCallIds :
               LET t == dlCalls'[c].token
               IN  (/\ t \in DOMAIN downloadLinks
                    /\ downloadLinks[t].expiresAt # Null
                    /\ Seconds(now) > downloadLinks[t].expiresAt)
                       => /\ dlCalls'[c].pc = "done"
                          /\ dlCalls'[c].result = "Expired"
                          /\ downloadLinks' = downloadLinks
        /\ \A c \in DlCallIds :
               dlCalls[c].pc = "done" => dlCalls'[c] = dlCalls[c]
        /\ \A l \in DOMAIN downloadLinks :
               downloadLinks'[l].downloadCount # downloadLinks[l].downloadCount
                   => \E c \in DlCallIds : /\ dlCalls[c].token = l
                                           /\ dlCalls[c].pc = "haveDownload"
                                           /\ dlCalls'[c].pc = "recorded"
      ]_vars

\* a call on an expired link has ended with the expired error, the count still 0
ExpiredLinkServesNothingWitness ==
    \E c \in DlCallIds :
        /\ dlCalls[c].result = "Expired"
        /\ downloadLinks[dlCalls[c].token].expiresAt # Null
        /\ downloadLinks[dlCalls[c].token].expiresAt < Seconds(now)
        /\ downloadLinks[dlCalls[c].token].downloadCount = 0

\* C15: createDownloadLink with expirationDays = 0 stores the creation time as the
\* link's expiresAt
ZeroDaysExpiresAtCreation ==
    [][ \A d \in DownloadIdInputs, m \in MaxDownloadsInputs :
            (CreateDownloadLink(d, m, 0) /\ Seconds(now) > 0)
                => downloadLinks'[dlSeq.links + 1].expiresAt = Seconds(now)
      ]_vars

\* C16: for a link that exists, the lookup fails as expired when expiresAt is set
\* and earlier than now, else as limit-reached when maxDownloads is set and
\* downloadCount has reached it, else it returns the link; it changes no row
LinkLookupDecision ==
    [][ \A c \in DOMAIN dlCalls' \ DlCallIds :
            LET t == dlCalls'[c].token
            IN  t \in DOMAIN downloadLinks
                    => LET l == downloadLinks[t]
                       IN  /\ IF l.expiresAt # Null /\ l.expiresAt < Seconds(now)
                              THEN dlCalls'[c].result = "Expired"
                              ELSE IF l.maxDownloads # Null
                                      /\ l.downloadCount >= l.maxDownloads
                              THEN dlCalls'[c].result = "LimitReached"
                              ELSE /\ dlCalls'[c].pc = "haveLink"
                                   /\ dlCalls'[c].result = "running"
                           /\ "Expired" # "LimitReached"
                           /\ UNCHANGED <<digitalDownloads, r2Objects, downloadLinks>>
      ]_vars

\* a lookup has failed as limit-reached on a link that has an expiry not yet passed
LinkLookupDecisionWitness ==
    \E c \in DlCallIds :
        /\ dlCalls[c].result = "LimitReached"
        /\ downloadLinks[dlCalls[c].token].expiresAt # Null
        /\ downloadLinks[dlCalls[c].token].expiresAt >= Seconds(now)
        /\ downloadLinks[dlCalls[c].token].maxDownloads = 1
        /\ downloadLinks[dlCalls[c].token].downloadCount >= 1

\* C34: a getDownloadFile call that fails leaves the link's downloadCount as it
\* was, so once every call on a token has ended the link's downloadCount is the
\* number of those calls that returned a file
DownloadCountCountsFiles ==
    \A t \in DOMAIN downloadLinks :
        (\A c \in DlCallIds : dlCalls[c].token = t => dlCalls[c].pc = "done")
        => downloadLinks[t].downloadCount =
               Cardinality({c \in DlCallIds :
                               dlCalls[c].token = t /\ dlCalls[c].result = "file"})

\* C38: a link created with maxDownloads = 0 permits no download: looked up by
\* its token right after its creation it is refused with the limit-reached error
ZeroMaxDownloadsRefused ==
    [][ \A d \in DownloadIdInputs, e \in ExpirationDaysInputs :
          CreateDownloadLink(d, 0, e) =>
              LinkByToken(downloadLinks', dlSeq'.links, now') = "LimitReached"
      ]_vars

\* C40: GET /downloads/:token accepts, and increments downloadCount, exactly when
\* getDownloadLinkByToken returns the link for the same token and clock, answers
\* 403 exactly when the service throws limit reached, and 404 exactly when the
\* service finds no link or throws expired
RouteAgreesWithService ==
    [][ \A t \in TokenInputs :
          RouteDownload(t) =>
            LET r == LinkByToken(downloadLinks, t, now)
            IN  /\ routeLast' = "ok" <=> r = "link"
                /\ routeLast' = "LimitExceeded" <=> r = "LimitReached"
                /\ routeLast' = "NotFoundOrExpired" <=> r \in {"null", "Expired"}
                /\ downloadLinks' = IF r = "link" THEN RecordDownload(downloadLinks, t)
                                    ELSE downloadLinks
      ]_vars

(***************************************************************************)
(* Payment engine: properties                                              *)
(***************************************************************************)

\* C4: once every processPayment call has completed, each order has as many Payment
\* rows as calls were made for it, and every row is completed or failed
PaymentAttemptAudit ==
    (\A c \in PpCallIds : ppCalls[c].pc = "done")
    => /\ \A o \in PayOrderIds :
              Cardinality({p \in DOMAIN payments : payments[p].orderId = o})
              = Cardinality({c \in PpCallIds : ppCalls[c].orderId = o})
       /\ \A p \in DOMAIN payments : payments[p].status \in {"completed", "failed"}

\* C7: no Refund row, and no refund handed to gateway.refund, is for more than the
\* amount of the payment it names
RefundWithinPayment ==
    /\ \A r \in DOMAIN refunds :
           refunds[r].paymentId \in DOMAIN payments
               => refunds[r].amount <= payments[refunds[r].paymentId].amount
    /\ \A q \in refundLog : q.amount <= q.paymentAmount

UnregisteredGateway ==
    \A c \in PpCallIds :
        /\ (ppCalls[c].pc # "created" /\ ppCalls[c].type \notin gateways)
               => ppCalls[c].outcome = "ConfigurationError"
        /\ ppCalls[c].outcome = "ConfigurationError"
               => /\ ppCalls[c].pc = "done"
                  /\ ppCalls[c].gwCalls = 0
                  /\ ppCalls[c].paymentId \in DOMAIN payments
                  /\ payments[ppCalls[c].paymentId].status = "pending"
                  /\ \A d \in PpCallIds \ {c} : ppCalls[d].paymentId # ppCalls[c].paymentId
                  /\ Cardinality(DOMAIN payments) = Cardinality(PpCallIds)

\* a paypal payment has failed for want of a gateway while stripe is registered
UnregisteredGatewayWitness ==
    \E c \in PpCallIds :
        /\ ppCalls[c].outcome = "ConfigurationError"
        /\ ppCalls[c].type = "paypal"
        /\ gateways = {"stripe"}
        /\ payments[ppCalls[c].paymentId].status = "pending"

\* C10: a processPayment call invokes gateway.process at most once, and only when
\* its Payment row is there with status pending; every new call inserts one row,
\* pending, under an id no row had
SingleAttempt ==
    [][ /\ \A c \in DOMAIN ppCalls' : ppCalls'[c].gwCalls <= 1
        /\ \A c \in PpCallIds :
               ppCalls'[c].gwCalls > ppCalls[c].gwCalls
                   => /\ ppCalls[c].paymentId \in DOMAIN payments
                      /\ payments[ppCalls[c].paymentId].status = "pending"
        /\ \A c \in DOMAIN ppCalls' \ PpCallIds :
               /\ ppCalls'[c].gwCalls = 0
               /\ ppCalls'[c].paymentId \notin DOMAIN payments
               /\ DOMAIN payments' = DOMAIN payments \cup {ppCalls'[c].paymentId}
               /\ payments'[ppCalls'[c].paymentId].status = "pending"
               /\ \A p \in DOMAIN payments : payments'[p] = payments[p]
      ]_vars

\* a failed attempt and a later, successful one for the same order: two calls, two
\* rows, one gateway invocation each
SingleAttemptWitness ==
    \E c1, c2 \in PpCallIds :
        /\ c1 < c2
        /\ ppCalls[c1].orderId = ppCalls[c2].orderId
        /\ ppCalls[c1].paymentId # ppCalls[c2].paymentId
        /\ ppCalls[c1].outcome = "threw" /\ ppCalls[c1].gwCalls = 1
        /\ ppCalls[c2].outcome = "returned" /\ ppCalls[c2].gwCalls = 1
        /\ payments[ppCalls[c1].paymentId].status = "failed"
        /\ payments[ppCalls[c2].paymentId].status = "completed"

\* C11: no step changes the status, amount or transactionId of a Payment row whose
\* status is completed or failed, so no row is ever in both terminal states
TerminalPaymentAbsorbing ==
    [][ \A p \in DOMAIN payments :
            payments[p].status \in {"completed", "failed"}
                => /\ p \in DOMAIN payments'
                   /\ payments'[p].status = payments[p].status
                   /\ payments'[p].amount = payments[p].amount
                   /\ payments'[p].transactionId = payments[p].transactionId
      ]_vars

\* a failed payment and a completed one of the same order, the completed one with a
\* refund that processRefund has settled
TerminalPaymentAbsorbingWitness ==
    \E p, q \in DOMAIN payments, r \in DOMAIN refunds :
        /\ payments[p].status = "failed" /\ payments[q].status = "completed"
        /\ payments[p].orderId = payments[q].orderId
        /\ refunds[r].paymentId = q /\ refunds[r].status = "completed"

\* C12: a processRefund call for a refund id that names no refund, or for a refund
\* whose payment does not exist, fails with that not-found error and calls no
\* gateway; and gateway.refund is never handed a payment without a transactionId
RefundNotFoundCases ==
    \A c \in RfCallIds :
        LET r == rfCalls[c].refundId
        IN  /\ r \notin DOMAIN refunds
                => rfCalls[c].outcome = "RefundNotFound" /\ rfCalls[c].request = NoRequest
            /\ (r \in DOMAIN refunds /\ refunds[r].paymentId # Null
                  /\ refunds[r].paymentId \notin DOMAIN payments)
                => rfCalls[c].outcome = "PaymentNotFound" /\ rfCalls[c].request = NoRequest
            /\ rfCalls[c].request # NoRequest => rfCalls[c].request.transactionId # ""

\* C13: the step that ends a processRefund call whose gateway.refund returned leaves
\* the Refund row completed with the gateway's transaction id and returns; the step
\* that ends one whose gateway.refund threw leaves it failed and rethrows the error
ProcessRefundOutcome ==
    [][ \A c \in RfCallIds :
            (rfCalls[c].pc # "done" /\ rfCalls'[c].pc = "done")
                => LET row == refunds'[rfCalls[c].refundId]
                   IN  /\ rfCalls[c].gwTxn # NullText
                             => /\ row.status = "completed"
                                /\ row.transactionId = rfCalls[c].gwTxn
                                /\ rfCalls'[c].outcome = "returned"
                       /\ rfCalls[c].thrown # NoThrow
                             => /\ row.status = "failed"
                                /\ rfCalls'[c].outcome = "threw"
                                /\ rfCalls'[c].raised = rfCalls[c].thrown
                       /\ rfCalls[c].gwTxn # NullText \/ rfCalls[c].thrown # NoThrow
      ]_vars

\* a processRefund call has ended with the refund completed under the gateway's id
ProcessRefundOutcomeWitness ==
    \E c \in RfCallIds :
        /\ rfCalls[c].pc = "done" /\ rfCalls[c].outcome = "returned"
        /\ rfCalls[c].gwTxn = "rtx1"
        /\ refunds[rfCalls[c].refundId].status = "completed"
        /\ refunds[rfCalls[c].refundId].transactionId = "rtx1"

\* C32: a payment whose gateway.process returned a transaction id is never left
\* with status failed, also when the UPDATE that records 'completed' fails
ChargedNeverFailed ==
    \A c \in PpCallIds :
        ppCalls[c].gwTxn # NullText
            => payments[ppCalls[c].paymentId].status # "failed"

\* C33: over any processRefund calls, gateway.refund returns successfully at most
\* once for a refund row, and a refund whose status is completed keeps that status
RefundedAtMostOnce ==
    [][ /\ \A r \in DOMAIN refunds :
              refunds[r].status = "completed" => refunds'[r].status = "completed"
        /\ \A r \in DOMAIN refunds' :
              Cardinality({c \in DOMAIN rfCalls' :
                              rfCalls'[c].refundId = r /\ rfCalls'[c].gwTxn # NullText}) <= 1
      ]_vars

\* C35: for a refund of a payment that gateway type T processed, processRefund
\* calls refund on the handler registered for T, and fails with the configuration
\* error exactly when no handler is registered for T
RefundUsesPaymentGateway ==
    [][ \A r \in DOMAIN refunds, p \in PpCallIds :
          (/\ RfStart(r)
           /\ refunds[r].paymentId = ppCalls[p].paymentId
           /\ ppCalls[p].outcome = "returned")
          => LET c == Cardinality(RfCallIds) + 1
             IN  IF ppCalls[p].type \in gateways
                 THEN rfCalls'[c].pc = "inGateway" /\ rfCalls'[c].gateway = ppCalls[p].type
                 ELSE rfCalls'[c].outcome = "GatewayNotAvailable"
      ]_vars

(***************************************************************************)
(* Order pipeline: properties                                              *)
(***************************************************************************)

\* C5: no two orders have the same order number
OrderNumbersUnique ==
    \A a, b \in DOMAIN orders :
        a # b => orders[a].orderNumber # orders[b].orderNumber

\* C6: no step changes the subtotal, tax, shipping, discount or total of an order
\* that exists, and updateOrderStatus on an order that exists sets its status
OrderAmountsFrozen ==
    [][ /\ \A id \in DOMAIN orders :
               /\ id \in DOMAIN orders'
               /\ orders'[id].subtotal = orders[id].subtotal
               /\ orders'[id].tax = orders[id].tax
               /\ orders'[id].shipping = orders[id].shipping
               /\ orders'[id].discount = orders[id].discount
               /\ orders'[id].total = orders[id].total
        /\ \A id \in DOMAIN orders, st \in OrderStatusInputs :
               UpdateOrderStatus(id, st) => orders'[id].status = st
      ]_vars

\* the order of the scenario, after updateOrderStatus(id, 'paid')
OrderAmountsFrozenWitness ==
    \E id \in DOMAIN orders :
        /\ orders[id].subtotal = 100 /\ orders[id].tax = 8 /\ orders[id].shipping = 10
        /\ orders[id].discount = 0 /\ orders[id].total = 118
        /\ orders[id].status = "paid"
        /\ orderOps > 0

\* C17: a markAsPaid step on an order that exists sets paymentStatus to paid and
\* status to processing in the one step, records the paymentId when one is given and
\* keeps the old one when none is, and changes nothing else
MarkAsPaidAtomic ==
    [][ \A id \in DOMAIN orders, p \in MarkPaidPaymentIds :
            MarkAsPaid(id, p)
                => /\ orders'[id].paymentStatus = "paid"
                   /\ orders'[id].status = "processing"
                   /\ orders'[id].paymentId = IF p # Null THEN p ELSE orders[id].paymentId
                   /\ orders' = [orders EXCEPT ![id].paymentStatus = "paid",
                                               ![id].status = "processing",
                                               ![id].paymentId = orders'[id].paymentId]
      ]_vars

\* an order marked as paid with its payment id, and one marked as paid without
MarkAsPaidAtomicWitness ==
    \E a, b \in DOMAIN orders :
        /\ orders[a].paymentStatus = "paid" /\ orders[a].status = "processing"
        /\ orders[a].paymentId = 7
        /\ orders[b].paymentStatus = "paid" /\ orders[b].status = "processing"
        /\ orders[b].paymentId = Null

\* C18: every change of an order's status is a move of the state machine: along
\* pending, paid, processing, shipped, delivered, to cancelled from a state before
\* shipped, or to refunded from paid or a state after it
OrderStatusMachine ==
    [][ \A id \in DOMAIN orders :
            orders'[id].status # orders[id].status
                => <<orders[id].status, orders'[id].status>> \in
                     {<<"pending", "paid">>, <<"paid", "processing">>,
                      <<"processing", "shipped">>, <<"shipped", "delivered">>,
                      <<"pending", "cancelled">>, <<"paid", "cancelled">>,
                      <<"processing", "cancelled">>,
                      <<"paid", "refunded">>, <<"processing", "refunded">>,
                      <<"shipped", "refunded">>, <<"delivered", "refunded">>}
      ]_vars

\* C19: an update that names no order fails with the not-found error and changes
\* no order
UpdateMissingOrderFails ==
    [][ \A id \in KnownOrderIds \ DOMAIN orders :
            (\/ \E input \in UpdateOrderInputs : UpdateOrderRead(id, input)
             \/ \E st \in OrderStatusInputs : UpdateOrderStatus(id, st)
             \/ \E st \in PaymentStatusInputs : UpdatePaymentStatus(id, st)
             \/ \E st \in ShippingStatusInputs : UpdateShippingStatus(id, st)
             \/ \E p \in MarkPaidPaymentIds : MarkAsPaid(id, p)
             \/ CancelOrder(id))
                => orderLast' = "OrderNotFound" /\ orders' = orders
      ]_vars

\* C20: a cancelOrder step on an order that exists sets its status to cancelled and
\* changes nothing else of it, no other order, and no Payment or Refund row
CancelOrderFrame ==
    [][ \A id \in DOMAIN orders :
            CancelOrder(id)
                => /\ orders' = [orders EXCEPT ![id].status = "cancelled"]
                   /\ payments' = payments
                   /\ refunds' = refunds
      ]_vars

\* a paid order of 118 has been cancelled: it is still marked paid
CancelOrderFrameWitness ==
    \E id \in DOMAIN orders :
        /\ orders[id].status = "cancelled"
        /\ orders[id].paymentStatus = "paid"
        /\ orders[id].total = 118 /\ orders[id].subtotal = 100

\* C21: every stored order satisfies total = subtotal + tax + shipping - discount,
\* from its creation by createOrder or by POST /orders and in every later state
\* (a NULL column reads back as null, which counts as 0 in the sum)
OrderTotalIdentity ==
    LET Num(v) == IF v = Null THEN 0 ELSE v
    IN  \A id \in DOMAIN orders :
            orders[id].total = Num(orders[id].subtotal) + Num(orders[id].tax)
                                 + Num(orders[id].shipping) - Num(orders[id].discount)

\* C31: an updateOrder whose input does not set paymentStatus leaves the order's
\* paymentStatus as markAsPaid or updatePaymentStatus wrote it, however the calls
\* interleave; and updateOrderStatus, updatePaymentStatus and updateShippingStatus
\* each change only their own status field
StatusUpdatesIndependent ==
    [][ /\ \A c \in DOMAIN uoCalls :
              (/\ UpdateOrderWrite(c)
               /\ uoCalls[c].input.paymentStatus = Unset
               /\ uoCalls[c].id \in DOMAIN orders)
              => orders'[uoCalls[c].id].paymentStatus = orders[uoCalls[c].id].paymentStatus
        /\ \A id \in DOMAIN orders :
              /\ (\E st \in OrderStatusInputs : UpdateOrderStatus(id, st))
                    => /\ orders'[id].paymentStatus = orders[id].paymentStatus
                       /\ orders'[id].shippingStatus = orders[id].shippingStatus
              /\ (\E st \in PaymentStatusInputs : UpdatePaymentStatus(id, st))
                    => /\ orders'[id].status = orders[id].status
                       /\ orders'[id].shippingStatus = orders[id].shippingStatus
              /\ (\E st \in ShippingStatusInputs : UpdateShippingStatus(id, st))
                    => /\ orders'[id].status = orders[id].status
                       /\ orders'[id].paymentStatus = orders[id].paymentStatus
      ]_vars

(***************************************************************************)
(* Product catalog: properties                                             *)
(***************************************************************************)

\* C22: under updateProduct, updateStock, decreaseStock, deactivateProduct or
\* deleteProduct on a product, every order item naming that product keeps its
\* productName, price, quantity and total, and every cart item naming it keeps
\* its price
ItemSnapshotsFrozen ==
    [][ \A p \in KnownProductIds :
          (\/ \E input \in UpdateProductInputs : UpdateProduct(p, input)
           \/ \E q \in StockLevels : UpdateStock(p, q)
           \/ \E q \in DecreaseQuantities : DecreaseStock(p, q)
           \/ DeactivateProduct(p)
           \/ DeleteProduct(p))
          => /\ \A i \in DOMAIN orderItems :
                   orderItems[i].productId = p =>
                       /\ i \in DOMAIN orderItems'
                       /\ orderItems'[i].productName = orderItems[i].productName
                       /\ orderItems'[i].price = orderItems[i].price
                       /\ orderItems'[i].quantity = orderItems[i].quantity
                       /\ orderItems'[i].total = orderItems[i].total
             /\ \A i \in DOMAIN cartItems :
                   cartItems[i].productId = p =>
                       /\ i \in DOMAIN cartItems'
                       /\ cartItems'[i].price = cartItems[i].price
      ]_vars

\* product 1 has been renamed, repriced, restocked and deactivated, or deleted,
\* while an order item and a cart item naming it hold the name and prices they
\* were written with
ItemSnapshotsFrozenWitness ==
    /\ prodSeq = 1
    /\ \/ 1 \notin DOMAIN products
       \/ /\ products[1].name = "cup" /\ products[1].price = 60
          /\ products[1].stockQuantity = 0 /\ ~products[1].isActive
    /\ \E i \in DOMAIN orderItems :
          /\ orderItems[i].productId = 1 /\ orderItems[i].productName = "mug"
          /\ orderItems[i].price = 50 /\ orderItems[i].quantity = 2
          /\ orderItems[i].total = 100
    /\ \E i \in DOMAIN cartItems :
          cartItems[i].productId = 1 /\ cartItems[i].price = 500

\* C29: decreaseStock(id, quantity) leaves the stockQuantity of a digital product
\* unchanged and sets that of a physical product to max(0, stockQuantity - quantity)
DecreaseStockByType ==
    [][ \A p \in DOMAIN products, q \in DecreaseQuantities :
          DecreaseStock(p, q) =>
            /\ p \in DOMAIN products'
            /\ products'[p].stockQuantity =
                  IF products[p].type = "digital"
                  THEN products[p].stockQuantity
                  ELSE IF products[p].stockQuantity - q > 0
                       THEN products[p].stockQuantity - q ELSE 0
      ]_vars

\* C36: with decreaseStock the only writer of a product created with stock s,
\* in every state the stock is max(0, s - the quantities of the calls whose
\* statement has run), so no decrement is lost and the stock is never negative
StockDecrementsNotLost ==
    \A p \in DOMAIN products :
        LET s    == CHOOSE q \in StockLevels : TRUE
            ran  == {c \in DsCallIds : dsCalls[c].productId = p /\ dsCalls[c].pc = "done"}
            took == SumOver([c \in DsCallIds |-> dsCalls[c].quantity], ran)
        IN  /\ products[p].stockQuantity >= 0
            /\ products[p].stockQuantity = IF s - took > 0 THEN s - took ELSE 0

\* two calls on product 1 were in flight together and both have run: quantities
\* 1 and 3 leave 1 of 5, and two calls of 3 stop at 0
StockDecrementsNotLostWitness ==
    /\ 1 \in DOMAIN products
    /\ Cardinality(DsCallIds) = 2
    /\ \A c \in DsCallIds : dsCalls[c].productId = 1 /\ dsCalls[c].pc = "done"
    /\ \/ dsCalls[1].quantity # dsCalls[2].quantity /\ products[1].stockQuantity = 1
       \/ dsCalls[1].quantity = 3 /\ dsCalls[2].quantity = 3
          /\ products[1].stockQuantity = 0

====
